---- MODULE Spec2Model ----
(***************************************************************************)
(* Model of src/search_agent.py: the keyword pipeline behind POST          *)
(* /agent/query (source lookup -> expansion by the generative model ->     *)
(* boolean query), and the pure helpers it is built from.                  *)
(*                                                                         *)
(* Text is modelled as a sequence of one-character strings, so that the    *)
(* regular expressions, str.strip, str.split and str.join of the source    *)
(* are computed character by character.  A topic is a sequence of Unicode  *)
(* code points, because is_ascii decides on code-point ranges.             *)
(***************************************************************************)
EXTENDS Integers, Sequences, FiniteSets, TLC

\* ------------------------------------------------------------------------
\* Bounds of the model
\* ------------------------------------------------------------------------
MaxNewsWords == 2
MaxLines == 2
MaxKeywords == 3
MaxLineLen == 6
MaxTopicLen == 2

\* ------------------------------------------------------------------------
\* Python built-ins used by the source
\* ------------------------------------------------------------------------
SetMin(S) == CHOOSE x \in S : \A y \in S : x <= y

SetMax(S) == CHOOSE x \in S : \A y \in S : y <= x

DQ == "\""

SQ == "'"

\* characters removed by str.strip() and matched by \s
Whitespace == {" ", "\t", "\n", "\r", "\f"}

Digits == {"0", "1", "2", "3", "4", "5", "6", "7", "8", "9"}

UpperLetters ==
    <<"A", "B", "C", "D", "E", "F", "G", "H", "I", "J", "K", "L", "M",
      "N", "O", "P", "Q", "R", "S", "T", "U", "V", "W", "X", "Y", "Z">>

LowerLetters ==
    <<"a", "b", "c", "d", "e", "f", "g", "h", "i", "j", "k", "l", "m",
      "n", "o", "p", "q", "r", "s", "t", "u", "v", "w", "x", "y", "z">>

Range(f) == {f[i] : i \in DOMAIN f}

\* str.upper() on one character, then on a string
UpperChar(c) ==
    IF c \in Range(LowerLetters)
    THEN UpperLetters[CHOOSE i \in DOMAIN LowerLetters : LowerLetters[i] = c]
    ELSE c

PyUpper(s) == [i \in DOMAIN s |-> UpperChar(s[i])]

\* s.strip(chars)
PyStrip(s, chars) ==
    LET keep == {i \in 1..Len(s) : s[i] \notin chars}
    IN  IF keep = {} THEN <<>> ELSE SubSeq(s, SetMin(keep), SetMax(keep))

\* s.split("\n"), from position i on, cur being the piece read so far
RECURSIVE SplitLinesFrom(_, _, _)
SplitLinesFrom(s, i, cur) ==
    IF i > Len(s) THEN <<cur>>
    ELSE IF s[i] = "\n" THEN <<cur>> \o SplitLinesFrom(s, i + 1, <<>>)
    ELSE SplitLinesFrom(s, i + 1, Append(cur, s[i]))

SplitLines(s) == SplitLinesFrom(s, 1, <<>>)

\* sep.join(parts)
RECURSIVE PyJoin(_, _)
PyJoin(sep, parts) ==
    IF parts = <<>> THEN <<>>
    ELSE IF Len(parts) = 1 THEN parts[1]
    ELSE parts[1] \o sep \o PyJoin(sep, Tail(parts))

\* list(dict.fromkeys(xs)): first occurrences, in first-seen order
RECURSIVE DictFromKeysFrom(_, _, _)
DictFromKeysFrom(xs, i, acc) ==
    IF i > Len(xs) THEN acc
    ELSE IF xs[i] \in Range(acc) THEN DictFromKeysFrom(xs, i + 1, acc)
    ELSE DictFromKeysFrom(xs, i + 1, Append(acc, xs[i]))

DictFromKeys(xs) == DictFromKeysFrom(xs, 1, <<>>)

\* itertools.combinations(xs, 2): index pairs i < j in lexicographic order
RECURSIVE PairsFrom(_, _, _)
PairsFrom(n, i, j) ==
    IF i >= n THEN <<>>
    ELSE IF j > n THEN PairsFrom(n, i + 1, i + 2)
    ELSE <<(<<i, j>>)>> \o PairsFrom(n, i, j + 1)

Combinations2(xs) ==
    LET idx == PairsFrom(Len(xs), 1, 2)
    IN  [p \in DOMAIN idx |-> <<xs[idx[p][1]], xs[idx[p][2]]>>]

\* last index of the run of characters of `set` that starts at i (i - 1 if
\* s[i] is not in `set`): the greedy match of [set]*
RunEnd(s, i, set) ==
    LET stops == {j \in i..Len(s) : s[j] \notin set}
    IN  IF stops = {} THEN Len(s) ELSE SetMin(stops) - 1

\* ------------------------------------------------------------------------
\* is_ascii (lines 30-45)
\* ------------------------------------------------------------------------
\* the nine character classes, as <<first, last>> code points
indian_script_patterns ==
    << <<2304, 2431>>,   \* \u0900-\u097F Devanagari
       <<2944, 3071>>,   \* \u0B80-\u0BFF Tamil
       <<3072, 3199>>,   \* \u0C00-\u0C7F Telugu
       <<3200, 3327>>,   \* \u0C80-\u0CFF Kannada
       <<3328, 3455>>,   \* \u0D00-\u0D7F Malayalam
       <<2688, 2815>>,   \* \u0A80-\u0AFF Gujarati
       <<2560, 2687>>,   \* \u0A00-\u0A7F Gurmukhi
       <<2432, 2559>>,   \* \u0980-\u09FF Bengali / Assamese
       <<2816, 2943>> >> \* \u0B00-\u0B7F Odia

\* the code points of the model's topics, and str.isalpha() on them
TopicChars ==
    { 32, 53, 65, 122,          \* ' ', '5', 'A', 'z'
      233, 1635, 8377, 20013,   \* e-acute, Arabic-Indic digit three, rupee sign, CJK
      2303, 2304, 2325, 2406,   \* below Devanagari; its first; KA; digit zero
      2453, 2581, 2709, 2837,   \* Bengali, Gurmukhi, Gujarati, Odia KA
      2965, 3093, 3221, 3349,   \* Tamil, Telugu, Kannada, Malayalam KA
      3455, 3456, 3461 }        \* last of Malayalam; above it; Sinhala A

IsAlpha(c) ==
    \/ c \in 65..90
    \/ c \in 97..122
    \/ c \in {233, 20013, 2325, 2453, 2581, 2709, 2837, 2965, 3093,
              3221, 3349, 3455, 3461}

\* re.search(pattern, s) for a one-class pattern
ReSearchClass(pattern, s) ==
    \E i \in DOMAIN s : pattern[1] <= s[i] /\ s[i] <= pattern[2]

\* is_ascii with the code-point test on every character, letters or not
is_ascii_all(s) ==
    IF \E p \in DOMAIN indian_script_patterns :
           ReSearchClass(indian_script_patterns[p], s)
    THEN FALSE
    ELSE \A i \in DOMAIN s : s[i] < 128

is_ascii(s) ==
    IF \E p \in DOMAIN indian_script_patterns :
           ReSearchClass(indian_script_patterns[p], s)
    THEN FALSE
    ELSE \A i \in DOMAIN s : IsAlpha(s[i]) => s[i] < 128

\* ------------------------------------------------------------------------
\* fetch_keywords_from_api (lines 48-64)
\* ------------------------------------------------------------------------
WordChars == Range(UpperLetters) \cup Range(LowerLetters) \cup Digits \cup {"_"}

\* [a-zA-Z0-9&]
KeywordTail == Range(UpperLetters) \cup Range(LowerLetters) \cup Digits \cup {"&"}

\* \b before position i (i = Len(s) + 1: at the end)
WordBoundary(s, i) ==
    LET before == i > 1 /\ s[i - 1] \in WordChars
        after == i <= Len(s) /\ s[i] \in WordChars
    IN  before # after

\* re.findall(r'\b[A-Z][a-zA-Z0-9&]+\b', s), scanning from position i: the
\* tail is matched greedily and given back until \b holds after it
RECURSIVE FindKeywordsFrom(_, _)
FindKeywordsFrom(s, i) ==
    IF i > Len(s) THEN <<>>
    ELSE LET ends == {e \in (i + 1)..RunEnd(s, i + 1, KeywordTail) :
                         WordBoundary(s, e + 1)}
         IN  IF WordBoundary(s, i) /\ s[i] \in Range(UpperLetters) /\ ends # {}
             THEN <<SubSeq(s, i, SetMax(ends))>>
                      \o FindKeywordsFrom(s, SetMax(ends) + 1)
             ELSE FindKeywordsFrom(s, i + 1)

FindKeywords(s) == FindKeywordsFrom(s, 1)

\* A JSON value of a field: absent, null, a number or a string
JsonAbsent == [type |-> "absent", num |-> 0, text |-> <<>>]

JsonNull == [type |-> "null", num |-> 0, text |-> <<>>]

JsonNumber(n) == [type |-> "number", num |-> n, text |-> <<>>]

JsonString(s) == [type |-> "string", num |-> 0, text |-> s]

\* Python truth value of a JSON value
Truthy(v) ==
    \/ v.type = "number" /\ v.num # 0
    \/ v.type = "string" /\ v.text # <<>>

\* An outcome of an HTTP call: an exception of the transport, or a response
\* with a status and a body: not JSON, a JSON array, or a JSON object with
\* the one field the caller reads
TransportError ==
    [kind |-> "exception", status |-> 0, json |-> "invalid", field |-> JsonAbsent]

HttpResponse(status, json, field) ==
    [kind |-> "response", status |-> status, json |-> json, field |-> field]

\* response.raise_for_status(): HTTPError for 4xx and 5xx
RaiseForStatus(status) == 400 <= status /\ status < 600

NoKeywords == [raised |-> FALSE, keywords |-> <<>>, news |-> <<>>]

Raised == [raised |-> TRUE, keywords |-> <<>>, news |-> <<>>]

\* the body of the try block, lines 51-61
FetchTry(r) ==
    IF r.kind = "exception" THEN Raised                       \* requests.get
    ELSE IF r.status = 404 THEN NoKeywords
    ELSE IF RaiseForStatus(r.status) THEN Raised
    ELSE IF r.json = "invalid" THEN Raised                    \* response.json()
    ELSE IF r.json = "array" THEN Raised                      \* data.get
    ELSE LET news_content ==
                 IF r.field.type = "absent" THEN JsonString(<<>>) ELSE r.field
         IN  IF ~Truthy(news_content) THEN NoKeywords
             ELSE IF news_content.type # "string" THEN Raised \* re.findall
             ELSE [raised |-> FALSE,
                   keywords |-> DictFromKeys(FindKeywords(news_content.text)),
                   news |-> news_content.text]

\* except Exception: return [], ""
ExceptException(res) == IF res.raised THEN NoKeywords ELSE res

fetch_keywords_from_api(r) == ExceptException(FetchTry(r))

\* ------------------------------------------------------------------------
\* expand_keywords_mistral (lines 67-110)
\* ------------------------------------------------------------------------
\* line 98 and the two f-strings: the template and what fills it
SelectPrompt(topic, ctx) ==
    [template |-> IF is_ascii(topic) THEN "english_prompt" ELSE "indian_prompt",
     topic |-> topic,
     context |-> ctx]

\* [\.\-\)\s]
MarkerChars == {".", "-", ")"} \cup Whitespace

\* re.sub(r"^\d+[\.\-\)\s]*", "", line)
SubEnumeration(line) ==
    LET d == RunEnd(line, 1, Digits)
    IN  IF d = 0 THEN line
        ELSE SubSeq(line, RunEnd(line, d + 1, MarkerChars) + 1, Len(line))

\* re.sub(r"\(.*?\)|\[.*?\]", "", s), scanning from position i: an opening
\* bracket is removed up to the first closing one of its kind, when no line
\* break lies between them
RECURSIVE SubAnnotationsFrom(_, _)
SubAnnotationsFrom(s, i) ==
    IF i > Len(s) THEN <<>>
    ELSE LET close == IF s[i] = "(" THEN ")" ELSE IF s[i] = "[" THEN "]" ELSE ""
             ends == {j \in (i + 1)..RunEnd(s, i + 1, Range(s) \ {"\n"}) :
                         s[j] = close}
         IN  IF ends # {}
             THEN SubAnnotationsFrom(s, SetMin(ends) + 1)
             ELSE <<s[i]>> \o SubAnnotationsFrom(s, i + 1)

SubAnnotations(s) == SubAnnotationsFrom(s, 1)

\* lines 107-109 on one stripped, non-empty line
CleanLine(line) ==
    PyStrip(PyStrip(PyStrip(SubAnnotations(SubEnumeration(line)), {DQ}), {SQ}),
            Whitespace)

\* the loop of lines 103-110 over the lines from position i on
RECURSIVE ParseLinesFrom(_, _)
ParseLinesFrom(lines, i) ==
    IF i > Len(lines) THEN <<>>
    ELSE LET line == PyStrip(lines[i], Whitespace)
         IN  IF line # <<>>
             THEN <<CleanLine(line)>> \o ParseLinesFrom(lines, i + 1)
             ELSE ParseLinesFrom(lines, i + 1)

ParseKeywords(result) == ParseLinesFrom(SplitLines(result), 1)

\* lines 101-110 on the outcome of requests.post: the call raises, or
\* returns the keyword list.  The status of the response is not looked at.
ExpandReply(r) ==
    IF r.kind = "exception" THEN [raised |-> TRUE, keywords |-> <<>>]
    ELSE IF r.json # "object" THEN [raised |-> TRUE, keywords |-> <<>>]
    ELSE IF r.field.type # "string" THEN [raised |-> TRUE, keywords |-> <<>>]
    ELSE [raised |-> FALSE, keywords |-> ParseKeywords(r.field.text)]

\* ------------------------------------------------------------------------
\* build_boolean_queries (lines 112-121)
\* ------------------------------------------------------------------------
StrValue(s) == [type |-> "str", val |-> s]

ListValue(l) == [type |-> "list", val |-> l]

NoneValue == [type |-> "None", val |-> <<>>]

\* f'"{k}"'
Quoted(k) == <<DQ>> \o k \o <<DQ>>

QuoteAll(keywords) == [i \in DOMAIN keywords |-> Quoted(keywords[i])]

\* [" AND ".join(c) for c in combos]
JoinCombos(combos) ==
    [i \in DOMAIN combos |-> PyJoin(<<" ", "A", "N", "D", " ">>, combos[i])]

\* build_boolean_queries comparing the mode as given, without upper()
build_boolean_queries_exact(keywords, m) ==
    IF keywords = <<>> THEN StrValue(<<>>)
    ELSE IF m = <<"O", "R">>
    THEN StrValue(PyJoin(<<" ", "O", "R", " ">>, QuoteAll(keywords)))
    ELSE IF m = <<"A", "N", "D">>
    THEN StrValue(PyJoin(<<" ", "A", "N", "D", " ">>, QuoteAll(keywords)))
    ELSE IF m = <<"C", "O", "M", "B", "O">>
    THEN ListValue(JoinCombos(Combinations2(keywords)))
    ELSE NoneValue

build_boolean_queries(keywords, m) ==
    IF keywords = <<>> THEN StrValue(<<>>)
    ELSE IF PyUpper(m) = <<"O", "R">>
    THEN StrValue(PyJoin(<<" ", "O", "R", " ">>, QuoteAll(keywords)))
    ELSE IF PyUpper(m) = <<"A", "N", "D">>
    THEN StrValue(PyJoin(<<" ", "A", "N", "D", " ">>, QuoteAll(keywords)))
    ELSE IF PyUpper(m) = <<"C", "O", "M", "B", "O">>
    THEN ListValue(JoinCombos(Combinations2(keywords)))
    ELSE NoneValue

\* ------------------------------------------------------------------------
\* agent_pipeline (lines 125-147)
\* ------------------------------------------------------------------------
\* ExpandContext preferring the content: news_content or ", ".join(...)
ExpandContextNewsFirst(keywords, news) ==
    IF keywords = <<>> /\ news = <<>> THEN <<>>
    ELSE IF news # <<>> THEN news ELSE PyJoin(<<",", " ">>, keywords)

\* lines 134-137: the context handed to expand_keywords_mistral; its
\* default "" when the lookup gave nothing
ExpandContext(keywords, news) ==
    IF keywords = <<>> /\ news = <<>> THEN <<>>
    ELSE LET joined == PyJoin(<<",", " ">>, keywords)
         IN  IF joined # <<>> THEN joined ELSE news

\* QueryResponse(keywords=..., boolean_query=...): boolean_query is a str
ValidQueryResponse(keywords, query) == query.type = "str"

\* ------------------------------------------------------------------------
\* Inputs
\* ------------------------------------------------------------------------
SeqsUpTo(S, n) == UNION {[1..k -> S] : k \in 0..n}

\* topics of the requests: "A5", Devanagari KA, e-acute
RequestTopics == {<<65, 53>>, <<2325>>, <<233>>}

NewsWords == {<<"M", "o">>, <<"v", "i">>, <<"R", "&", "D">>}

NewsContents ==
    {PyJoin(<<" ">>, ws) : ws \in SeqsUpTo(NewsWords, MaxNewsWords) \ {<<>>}}

NewsFields ==
    {JsonAbsent, JsonNull, JsonNumber(0), JsonNumber(7), JsonString(<<>>)}
        \cup {JsonString(n) : n \in NewsContents}

Bodies(fields) ==
    {[json |-> "invalid", field |-> JsonAbsent],
     [json |-> "array", field |-> JsonAbsent]}
        \cup {[json |-> "object", field |-> f] : f \in fields}

\* what requests.get of line 51 can end in
LookupOutcomes ==
    {TransportError}
        \cup {HttpResponse(st, b.json, b.field) :
                  st \in {200, 300, 404, 500}, b \in Bodies(NewsFields)}

ResponseLines ==
    {<<"a">>, <<"1", ".", " ", "a", " ", "(", "h", ")">>, <<"1", ".">>, <<>>}

ModelTexts == {PyJoin(<<"\n">>, ls) : ls \in SeqsUpTo(ResponseLines, MaxLines)}

ResponseFields ==
    {JsonAbsent, JsonNull, JsonNumber(7)} \cup {JsonString(t) : t \in ModelTexts}

\* what requests.post of line 101 can end in
ModelOutcomes ==
    {TransportError}
        \cup {HttpResponse(st, b.json, b.field) :
                  st \in {200, 500}, b \in Bodies(ResponseFields)}

\* ------------------------------------------------------------------------
\* State
\* ------------------------------------------------------------------------
VARIABLES
    pc,                \* where the request is in agent_pipeline
    topic,             \* request.topic
    lookup_calls,      \* requests.get issued for this request
    lookup_response,   \* its outcome
    initial_keywords,  \* line 130
    news_content,      \* line 130
    model_calls,       \* requests.post issued for this request
    prompt,            \* line 98
    model_response,    \* outcome of requests.post
    refined_keywords,  \* lines 135, 137
    mode,              \* the mode argument of build_boolean_queries
    boolean_query,     \* line 140
    result             \* what the request ends in

vars ==
    <<pc, topic, lookup_calls, lookup_response, initial_keywords, news_content,
      model_calls, prompt, model_response, refined_keywords, mode,
      boolean_query, result>>

NoResponse ==
    [kind |-> "none", status |-> 0, json |-> "invalid", field |-> JsonAbsent]

NoPrompt == [template |-> "none", topic |-> <<>>, context |-> <<>>]

Unset == [type |-> "unset", val |-> <<>>]

NoResult == [status |-> "none", keywords |-> <<>>, boolean_query |-> Unset]

Failure == [status |-> "error", keywords |-> <<>>, boolean_query |-> Unset]

\* a request with topic t at position `at`, nothing done yet
Fresh(t, at) ==
    /\ pc = at
    /\ topic = t
    /\ lookup_calls = 0
    /\ lookup_response = NoResponse
    /\ initial_keywords = <<>>
    /\ news_content = <<>>
    /\ model_calls = 0
    /\ prompt = NoPrompt
    /\ model_response = NoResponse
    /\ refined_keywords = <<>>
    /\ mode = <<"O", "R">>
    /\ boolean_query = Unset
    /\ result = NoResult

Init == Fresh(<<>>, "idle")

\* ------------------------------------------------------------------------
\* Steps of a request
\* ------------------------------------------------------------------------
\* POST /agent/query arrives (line 127); nothing is kept of earlier requests
ReceiveRequest(t) ==
    /\ pc \in {"idle", "returned", "failed"}
    /\ pc' = "fetch"
    /\ topic' = t
    /\ lookup_calls' = 0
    /\ lookup_response' = NoResponse
    /\ initial_keywords' = <<>>
    /\ news_content' = <<>>
    /\ model_calls' = 0
    /\ prompt' = NoPrompt
    /\ model_response' = NoResponse
    /\ refined_keywords' = <<>>
    /\ mode' = <<"O", "R">>
    /\ boolean_query' = Unset
    /\ result' = NoResult

\* line 51: requests.get is issued and blocks
LookupCall ==
    /\ pc = "fetch"
    /\ lookup_calls' = lookup_calls + 1
    /\ pc' = "lookup_wait"
    /\ UNCHANGED <<topic, lookup_response, initial_keywords, news_content,
                   model_calls, prompt, model_response, refined_keywords, mode,
                   boolean_query, result>>

\* lines 51-64, 130: the lookup resolves in one of its outcomes
LookupResolve ==
    /\ pc = "lookup_wait"
    /\ \E r \in LookupOutcomes :
           /\ lookup_response' = r
           /\ LET got == fetch_keywords_from_api(r)
              IN  IF got.raised
                  THEN /\ pc' = "failed"
                       /\ result' = Failure
                       /\ UNCHANGED <<initial_keywords, news_content>>
                  ELSE /\ pc' = "lookup_done"
                       /\ initial_keywords' = got.keywords
                       /\ news_content' = got.news
                       /\ UNCHANGED result
    /\ UNCHANGED <<topic, lookup_calls, model_calls, prompt, model_response,
                   refined_keywords, mode, boolean_query>>

\* ExpandCall not waiting for the lookup: requests.post is issued while
\* requests.get is still pending
ExpandCallEarly ==
    /\ pc \in {"lookup_wait", "lookup_done"}
    /\ prompt' = SelectPrompt(topic, ExpandContext(initial_keywords, news_content))
    /\ model_calls' = model_calls + 1
    /\ pc' = "model_wait"
    /\ UNCHANGED <<topic, lookup_calls, lookup_response, initial_keywords,
                   news_content, model_response, refined_keywords, mode,
                   boolean_query, result>>

\* lines 134-137, 98-101: the prompt is built and requests.post is issued
ExpandCall ==
    /\ pc = "lookup_done"
    /\ prompt' = SelectPrompt(topic, ExpandContext(initial_keywords, news_content))
    /\ model_calls' = model_calls + 1
    /\ pc' = "model_wait"
    /\ UNCHANGED <<topic, lookup_calls, lookup_response, initial_keywords,
                   news_content, model_response, refined_keywords, mode,
                   boolean_query, result>>

\* lines 101-110: the model call resolves in one of `outcomes`; an
\* exception leaves agent_pipeline
ExpandResolve(outcomes) ==
    /\ pc = "model_wait"
    /\ \E r \in outcomes :
           /\ model_response' = r
           /\ LET got == ExpandReply(r)
              IN  IF got.raised
                  THEN /\ pc' = "failed"
                       /\ result' = Failure
                       /\ UNCHANGED refined_keywords
                  ELSE /\ pc' = "expanded"
                       /\ refined_keywords' = got.keywords
                       /\ UNCHANGED result
    /\ UNCHANGED <<topic, lookup_calls, lookup_response, initial_keywords,
                   news_content, model_calls, prompt, mode, boolean_query>>

\* line 140
Compose ==
    /\ pc = "expanded"
    /\ boolean_query' = build_boolean_queries(refined_keywords, mode)
    /\ pc' = "composed"
    /\ UNCHANGED <<topic, lookup_calls, lookup_response, initial_keywords,
                   news_content, model_calls, prompt, model_response,
                   refined_keywords, mode, result>>

\* lines 144-147
Return ==
    /\ pc = "composed"
    /\ IF ValidQueryResponse(refined_keywords, boolean_query)
       THEN /\ pc' = "returned"
            /\ result' = [status |-> "ok", keywords |-> refined_keywords,
                          boolean_query |-> boolean_query]
       ELSE /\ pc' = "failed"
            /\ result' = Failure
    /\ UNCHANGED <<topic, lookup_calls, lookup_response, initial_keywords,
                   news_content, model_calls, prompt, model_response,
                   refined_keywords, mode, boolean_query>>

Next ==
    \/ \E t \in RequestTopics : ReceiveRequest(t)
    \/ LookupCall
    \/ LookupResolve
    \/ ExpandCall
    \/ ExpandResolve(ModelOutcomes)
    \/ Compose
    \/ Return

Spec == Init /\ [][Next]_vars

\* ------------------------------------------------------------------------
\* The functions on their own, over wider inputs
\* ------------------------------------------------------------------------
\* a request whose lookup has resolved in r (lines 127-131)
AfterLookup(t, r) ==
    /\ pc = "lookup_done"
    /\ topic = t
    /\ lookup_calls = 1
    /\ lookup_response = r
    /\ initial_keywords = fetch_keywords_from_api(r).keywords
    /\ news_content = fetch_keywords_from_api(r).news
    /\ model_calls = 0
    /\ prompt = NoPrompt
    /\ model_response = NoResponse
    /\ refined_keywords = <<>>
    /\ mode = <<"O", "R">>
    /\ boolean_query = Unset
    /\ result = NoResult

NotFound == HttpResponse(404, "invalid", JsonAbsent)

\* is_ascii and the choice of the template, line 98, over every short topic
ClassifyTopics == SeqsUpTo(TopicChars, MaxTopicLen)

ClassifyOutcomes ==
    {NotFound,
     HttpResponse(200, "object", JsonString(<<"v", "i">>)),
     HttpResponse(200, "object", JsonString(<<"M", "o", " ", "v", "i">>))}

InitClassify ==
    \E t \in ClassifyTopics, r \in ClassifyOutcomes : AfterLookup(t, r)

SpecClassify == InitClassify /\ [][ExpandCall]_vars

\* the parsing of lines 103-110 over every short line
ParseChars == {"5", "G", ".", " ", "(", ")", DQ}

ParseLines == SeqsUpTo(ParseChars, MaxLineLen)

ParseOutcomes == {HttpResponse(200, "object", JsonString(l)) : l \in ParseLines}

InitParse ==
    /\ pc = "model_wait"
    /\ topic = <<65, 53>>
    /\ lookup_calls = 1
    /\ lookup_response = NotFound
    /\ initial_keywords = <<>>
    /\ news_content = <<>>
    /\ model_calls = 1
    /\ prompt = SelectPrompt(<<65, 53>>, <<>>)
    /\ model_response = NoResponse
    /\ refined_keywords = <<>>
    /\ mode = <<"O", "R">>
    /\ boolean_query = Unset
    /\ result = NoResult

NextParse ==
    \/ ExpandResolve(ParseOutcomes)
    \/ Compose
    \/ Return

SpecParse == InitParse /\ [][NextParse]_vars

\* build_boolean_queries over keyword lists and mode values
ComposeKeywords == {<<"A">>, <<"B">>, <<"C", " ", "d">>}

LowerChar(c) ==
    IF c \in Range(UpperLetters)
    THEN LowerLetters[CHOOSE i \in DOMAIN UpperLetters : UpperLetters[i] = c]
    ELSE c

\* every spelling of word w in upper and lower case
CaseVariants(w) ==
    {[i \in DOMAIN w |-> IF i \in low THEN LowerChar(w[i]) ELSE w[i]] :
        low \in SUBSET DOMAIN w}

Modes ==
    CaseVariants(<<"O", "R">>) \cup CaseVariants(<<"A", "N", "D">>)
        \cup CaseVariants(<<"C", "O", "M", "B", "O">>)
        \cup {<<>>, <<"X", "O", "R">>, <<"N", "O", "T">>, <<"O">>,
              <<"O", "R", " ">>, <<"A", "N", "D", "S">>, <<"c", "o", "m", "b">>}

InitCompose ==
    /\ pc = "expanded"
    /\ topic = <<>>
    /\ lookup_calls = 0
    /\ lookup_response = NoResponse
    /\ initial_keywords = <<>>
    /\ news_content = <<>>
    /\ model_calls = 0
    /\ prompt = NoPrompt
    /\ model_response = NoResponse
    /\ refined_keywords \in SeqsUpTo(ComposeKeywords, MaxKeywords)
    /\ mode \in Modes
    /\ boolean_query = Unset
    /\ result = NoResult

SpecCompose == InitCompose /\ [][Compose]_vars

\* ------------------------------------------------------------------------
\* Properties
\* ------------------------------------------------------------------------
\* the parts joined by sep, built from the right
RECURSIVE JoinedBy(_, _)
JoinedBy(sep, parts) ==
    IF parts = <<>> THEN <<>>
    ELSE IF Len(parts) = 1 THEN parts[1]
    ELSE JoinedBy(sep, SubSeq(parts, 1, Len(parts) - 1)) \o sep
             \o parts[Len(parts)]

NoDuplicates(xs) == \A i, j \in DOMAIN xs : xs[i] = xs[j] => i = j

Is2xx(status) == 200 <= status /\ status <= 299

LookupResolved == lookup_response.kind # "none"

ModelResolved == model_response.kind # "none"

\* the outcomes of the lookup that the specification calls "no data"
LookupGaveNothing(r) ==
    \/ r.kind = "exception"
    \/ r.kind = "response" /\ ~Is2xx(r.status)
    \/ r.kind = "response" /\ r.json # "object"
    \/ r.kind = "response" /\ r.field.type = "absent"
    \/ r.kind = "response" /\ r.field = JsonString(<<>>)

\* C1: whatever the lookup service does (404, another non-2xx status, a
\* transport exception, a body that is no JSON object, no or an empty news
\* field), the lookup returns ([], "") without raising, and the request
\* goes on to the expansion call.
C1_LookupFallsBack ==
    (LookupResolved /\ LookupGaveNothing(lookup_response))
        => /\ initial_keywords = <<>>
           /\ news_content = <<>>
           /\ pc = "lookup_done" \/ model_calls = 1

\* the outcomes of the model call that the specification calls a failure
ModelFailed(r) ==
    \/ r.kind = "exception"
    \/ r.kind = "response" /\ ~Is2xx(r.status)
    \/ r.kind = "response" /\ r.json # "object"
    \/ r.kind = "response" /\ r.field.type = "absent"

\* C2: a model call that is unreachable, answers non-2xx or sends a
\* malformed payload ends the request in a failure with no QueryResult; a
\* request ends with keywords and a boolean query, or with a failure.
C2_ExpansionFailureFails ==
    /\ (ModelResolved /\ ModelFailed(model_response))
           => pc = "failed" /\ result = Failure
    /\ pc = "failed" => result = Failure
    /\ pc = "returned"
           => /\ result.status = "ok"
              /\ result.keywords = refined_keywords
              /\ result.boolean_query.type = "str"

\* C3: once the expansion call is issued, its context is empty when the
\* lookup gave no keywords and no content, the keywords joined by ", " when
\* there are keywords, and the content otherwise; after a 404 the context
\* is empty and a request that returns has a well-formed result.
C3_ContextFromLookup ==
    model_calls = 1
        => /\ prompt.topic = topic
           /\ prompt.context =
                  IF initial_keywords = <<>> /\ news_content = <<>> THEN <<>>
                  ELSE IF initial_keywords # <<>>
                  THEN JoinedBy(<<",", " ">>, initial_keywords)
                  ELSE news_content
           /\ lookup_response.status = 404
                  => /\ prompt.context = <<>>
                     /\ pc = "returned"
                            => /\ result.status = "ok"
                               /\ result.keywords = refined_keywords
                               /\ result.boolean_query.type = "str"

C3_Witness ==
    /\ pc = "returned"
    /\ initial_keywords = <<(<<"M", "o">>), (<<"R", "&", "D">>)>>
    /\ prompt.context = <<"M", "o", ",", " ", "R", "&", "D">>

\* C4: the two calls are sequential and never repeated: the model call is
\* issued only after the lookup has resolved, each call is issued at most
\* once in a request, and the boolean query is composed only after the
\* expansion has returned its keywords.
C4_Sequential ==
    /\ lookup_calls <= 1
    /\ model_calls <= 1
    /\ model_calls = 1 => lookup_calls = 1 /\ LookupResolved
    /\ ModelResolved => model_calls = 1
    /\ boolean_query # Unset
           => /\ ModelResolved
              /\ ~ExpandReply(model_response).raised
              /\ refined_keywords = ExpandReply(model_response).keywords

C4_Witness ==
    /\ pc = "returned"
    /\ lookup_calls = 1
    /\ model_calls = 1
    /\ boolean_query.type = "str"
    /\ boolean_query.val # <<>>

\* mode is word w in some letter case
IsMode(m, w) ==
    /\ Len(m) = Len(w)
    /\ \A i \in DOMAIN w : m[i] = w[i] \/ m[i] = LowerChar(w[i])

\* place of the pair (i, j), i < j, among the pairs of n items
PairIndex(n, i, j) == (i - 1) * n - ((i - 1) * i) \div 2 + (j - i)

\* C5: in mode COMBO, in any letter case, a list of n >= 1 keywords gives
\* n(n-1)/2 strings, one per pair i < j in the order of the list, each of
\* the form "ki" AND "kj" with both keywords double-quoted.
C5_ComboQuotedPairs ==
    (pc = "composed" /\ refined_keywords # <<>>
        /\ IsMode(mode, <<"C", "O", "M", "B", "O">>))
        => LET n == Len(refined_keywords)
           IN  /\ boolean_query.type = "list"
               /\ Len(boolean_query.val) = (n * (n - 1)) \div 2
               /\ \A i, j \in 1..n :
                      i < j =>
                          boolean_query.val[PairIndex(n, i, j)] =
                              <<DQ>> \o refined_keywords[i]
                                  \o <<DQ, " ", "A", "N", "D", " ", DQ>>
                                  \o refined_keywords[j] \o <<DQ>>

\* C6: an empty list gives the empty string whatever the mode; a non-empty
\* list in mode OR (AND), in any letter case, gives one string: the
\* keywords in order, each double-quoted, joined by " OR " (" AND "); a mode
\* that is none of OR, AND, COMBO gives no string and no list.
C6_ComposeModes ==
    pc = "composed"
        => LET quoted ==
                   [i \in DOMAIN refined_keywords |->
                       <<DQ>> \o refined_keywords[i] \o <<DQ>>]
           IN  /\ refined_keywords = <<>>
                      => boolean_query = [type |-> "str", val |-> <<>>]
               /\ (refined_keywords # <<>> /\ IsMode(mode, <<"O", "R">>))
                      => boolean_query =
                             [type |-> "str",
                              val |-> JoinedBy(<<" ", "O", "R", " ">>, quoted)]
               /\ (refined_keywords # <<>> /\ IsMode(mode, <<"A", "N", "D">>))
                      => boolean_query =
                             [type |-> "str",
                              val |-> JoinedBy(<<" ", "A", "N", "D", " ">>, quoted)]
               /\ (refined_keywords # <<>>
                      /\ ~IsMode(mode, <<"O", "R">>)
                      /\ ~IsMode(mode, <<"A", "N", "D">>)
                      /\ ~IsMode(mode, <<"C", "O", "M", "B", "O">>))
                      => boolean_query.type \notin {"str", "list"}

C6_Witness ==
    /\ pc = "composed"
    /\ mode = <<"o", "R">>
    /\ refined_keywords = <<(<<"B">>), (<<"C", " ", "d">>)>>
    /\ boolean_query.val =
           <<DQ, "B", DQ, " ", "O", "R", " ", DQ, "C", " ", "d", DQ>>

\* C7: no entry of the keyword list of the expansion, nor of the keywords
\* of a result, is empty or keeps a numbering or bracket artifact: a line
\* that is empty after cleaning is not appended.
C7_NoEmptyKeyword ==
    /\ \A i \in DOMAIN refined_keywords :
           /\ refined_keywords[i] # <<>>
           /\ refined_keywords[i][1] \notin Digits
           /\ \A c \in {"(", ")", "[", "]"} : c \notin Range(refined_keywords[i])
    /\ \A i \in DOMAIN result.keywords : result.keywords[i] # <<>>

\* C8: the keyword list of the lookup and the keyword list of the
\* expansion hold no entry twice.
C8_UniqueKeywords ==
    /\ NoDuplicates(initial_keywords)
    /\ NoDuplicates(refined_keywords)

InBlock(c, first, last) == first <= c /\ c <= last

\* Devanagari, Bengali/Assamese, Gurmukhi, Gujarati, Odia, Tamil, Telugu,
\* Kannada, Malayalam
InIndicBlock(c) ==
    \/ InBlock(c, 2304, 2431) \/ InBlock(c, 2432, 2559) \/ InBlock(c, 2560, 2687)
    \/ InBlock(c, 2688, 2815) \/ InBlock(c, 2816, 2943) \/ InBlock(c, 2944, 3071)
    \/ InBlock(c, 3072, 3199) \/ InBlock(c, 3200, 3327) \/ InBlock(c, 3328, 3455)

\* C9: the topic is INDIC when it has a character of the nine Indic blocks,
\* and otherwise ASCII_COMPATIBLE exactly when each of its alphabetic
\* characters is below 128; the ASCII template is used exactly for an
\* ASCII_COMPATIBLE topic, whatever the context.
C9_TemplateByTopic ==
    model_calls = 1
        => LET indic == \E i \in DOMAIN topic : InIndicBlock(topic[i])
               letters == {i \in DOMAIN topic : IsAlpha(topic[i])}
               ascii_compatible == ~indic /\ \A i \in letters : topic[i] <= 127
           IN  /\ prompt.template = "english_prompt" <=> ascii_compatible
               /\ prompt.template = "indian_prompt" <=> ~ascii_compatible

C9_Witness ==
    /\ model_calls = 1
    /\ topic = <<53, 8377>>
    /\ prompt.context # <<>>
    /\ prompt.template = "english_prompt"

\* a line of the form "k" (annotation): a keyword of letters and digits in
\* double quotes, white space or nothing, one parenthesized annotation
QuotedThenAnnotated(line) ==
    \E q \in 3..(Len(line) - 2), o \in 4..(Len(line) - 1) :
        /\ q < o
        /\ line[1] = DQ
        /\ line[q] = DQ
        /\ \A i \in 2..(q - 1) : line[i] \in WordChars
        /\ \A i \in (q + 1)..(o - 1) : line[i] \in Whitespace
        /\ line[o] = "("
        /\ \A i \in (o + 1)..(Len(line) - 1) : line[i] \notin {"(", ")"}
        /\ line[Len(line)] = ")"

\* C10: the cleaned token of a response line keeps leading digits that no
\* enumeration marker follows (as in "5G rollout"), and for a quoted keyword
\* followed by an annotation it has no quote character left at either end.
C10_CleanedToken ==
    (pc = "expanded" /\ Len(refined_keywords) = 1)
        => LET line == PyStrip(model_response.field.text, Whitespace)
               token == refined_keywords[1]
               d == RunEnd(line, 1, Digits)
           IN  /\ (d >= 1 /\ d < Len(line) /\ line[d + 1] \in Range(UpperLetters))
                      => token # <<>> /\ token[1] = line[1]
               /\ QuotedThenAnnotated(line)
                      => /\ token # <<>>
                         /\ token[1] # DQ
                         /\ token[Len(token)] # DQ

\* C10, the part on quotes alone
C10_NoQuoteLeft ==
    (pc = "expanded" /\ Len(refined_keywords) = 1)
        => LET line == PyStrip(model_response.field.text, Whitespace)
               token == refined_keywords[1]
           IN  QuotedThenAnnotated(line)
                   => /\ token # <<>>
                      /\ token[1] # DQ
                      /\ token[Len(token)] # DQ

====
